---------------------------- MODULE Spec2Model ----------------------------
(***************************************************************************)
(* Model of kabsch_umeyama (src/src/lib.rs): the Array2 adapter and the    *)
(* estimate routine.                                                       *)
(*                                                                         *)
(* Numbers are rationals with an exponent that can overflow and underflow, *)
(* standing for the f64 values of the code; matrices are functions row ->  *)
(* column -> number, indexed from 1.  The SVD backend is a                 *)
(* nondeterministic choice among the factorizations A = U * diag(S) * Vt   *)
(* with U, Vt orthogonal and S non-negative and descending.                *)
(***************************************************************************)
EXTENDS Integers, Sequences, FiniteSets

VARIABLES
    R,              \* const generic R: number of points
    C,              \* const generic C: number of dimensions
    src_in,         \* the flat slice handed to Array2::from(&[f64])
    dst_in,         \* the flat array handed to Array2::from(&[f64; RC])
    estimate_scale, \* the flag of estimate
    pc,             \* position in the program
    src_arr,        \* Array2 built for src
    dst_arr,        \* Array2 built for dst
    src,            \* local src of estimate (demeaned in place)
    dst,            \* local dst of estimate (demeaned in place)
    src_mean,       \* 1 x C row vector
    dst_mean,       \* 1 x C row vector
    a,              \* cross-covariance matrix, C x C
    d,              \* sign vector, length C
    t,              \* the (C+1) x (C+1) result matrix
    svd,            \* the factors u, singular_values, vt
    rank,           \* a.rank(1e-5)
    m,              \* the rotation block
    scale,          \* the scale factor
    branch,         \* which arm of the rotation assembly ran
    cache,          \* the saved d[C - 1] of line 139
    mx              \* the translation row vector

vars == <<R, C, src_in, dst_in, estimate_scale, pc, src_arr, dst_arr, src, dst,
          src_mean, dst_mean, a, d, t, svd, rank, m, scale, branch, cache, mx>>

\* the value of a local that is not assigned yet
NoValue == <<>>

---------------------------------------------------------------------------
(* Bounds of the model *)

\* scales s of the generated destinations range over 1..MaxScale
MaxScale == 2
\* shifts of the generated destinations are k * (1, 2, 3), k in 0..MaxShift
MaxShift == 1
\* wrong-length slices carry up to MaxExtra elements too many
MaxExtra == 1
\* directions of the singular vectors: primitive integer vectors of squared
\* norm at most MaxNorm2
MaxNorm2 == 6

---------------------------------------------------------------------------
(* The f64 numbers.  A number is <<n, dd, e>>, the value (n / dd) * H^e,  *)
(* n / dd in lowest terms, dd > 0, H a power of two so large that H^2 is   *)
(* above the largest f64 and H^-2 below the smallest positive one.  An     *)
(* operation whose exponent leaves -1..1 overflows to an infinity or       *)
(* underflows to zero; in a sum the term of the larger exponent absorbs    *)
(* the other.  dd = 0 marks the values that are not finite: <<1, 0, 0>>    *)
(* and <<-1, 0, 0>> are the infinities, <<0, 0, 0>> is NaN.                *)
(***************************************************************************)

Abs(x) == IF x < 0 THEN -x ELSE x
Sign(x) == IF x < 0 THEN -1 ELSE IF x = 0 THEN 0 ELSE 1

RECURSIVE GCD(_, _)
GCD(x, y) == IF y = 0 THEN x ELSE GCD(y, x % y)

Zero == <<0, 1, 0>>
One == <<1, 1, 0>>
MinusOne == <<-1, 1, 0>>
Infinity == <<1, 0, 0>>
NaN == <<0, 0, 0>>

\* the exponents of H a finite non-zero f64 can carry
Exponents == -1..1

\* the f64 nearest to (n / dd) * H^e, n / dd in lowest terms, dd > 0
Fit(n, dd, e) ==
    IF n = 0 THEN Zero
    ELSE IF e \in Exponents THEN <<n, dd, e>>
    ELSE IF e < 0 THEN Zero
    ELSE <<Sign(n), 0, 0>>

\* the number (n / dd) * H^e
QE(n, dd, e) ==
    IF dd = 0 THEN <<Sign(n), 0, 0>>
    ELSE Fit(Sign(dd) * (n \div GCD(Abs(n), Abs(dd))), Abs(dd) \div GCD(Abs(n), Abs(dd)), e)

\* the number n / dd
Q(n, dd) == QE(n, dd, 0)

I2Q(n) == <<n, 1, 0>>

\* H^e
Pow(e) == <<1, 1, e>>

IsFinite(x) == x[2] # 0

\* the sum of two finite numbers of one exponent
AddAligned(x, y) ==
    IF x[2] = y[2]
    THEN IF x[2] = 1 THEN Fit(x[1] + y[1], 1, x[3]) ELSE QE(x[1] + y[1], x[2], x[3])
    ELSE QE(x[1] * (y[2] \div GCD(x[2], y[2])) + y[1] * (x[2] \div GCD(x[2], y[2])),
            x[2] * (y[2] \div GCD(x[2], y[2])), x[3])

QAdd(x, y) ==
    IF x[2] = 0 \/ y[2] = 0
    THEN IF x[2] # 0 THEN y
         ELSE IF y[2] # 0 \/ x[1] = y[1] THEN x
         ELSE NaN
    ELSE IF x[1] = 0 THEN y
    ELSE IF y[1] = 0 \/ x[3] > y[3] THEN x
    ELSE IF x[3] < y[3] THEN y
    ELSE AddAligned(x, y)
QNeg(x) == <<-x[1], x[2], x[3]>>
QSub(x, y) == QAdd(x, QNeg(y))
QMul(x, y) ==
    IF x[2] = 0 \/ y[2] = 0 THEN <<Sign(x[1]) * Sign(y[1]), 0, 0>>
    ELSE IF x[2] = 1 /\ y[2] = 1 THEN Fit(x[1] * y[1], 1, x[3] + y[3])
    ELSE Fit(Q(x[1], y[2])[1] * Q(y[1], x[2])[1],
             Q(x[1], y[2])[2] * Q(y[1], x[2])[2], x[3] + y[3])
\* 1 / y
QRecip(y) ==
    IF y[2] = 0 THEN IF y[1] = 0 THEN NaN ELSE Zero
    ELSE IF y[1] = 0 THEN Infinity
    ELSE <<Sign(y[1]) * y[2], Abs(y[1]), -y[3]>>
QDiv(x, y) == QMul(x, QRecip(y))
QLt(x, y) == QSub(x, y)[1] < 0

RECURSIVE QSum(_, _)
\* the sum of f[1] .. f[n]
QSum(f, n) == IF n = 0 THEN Zero ELSE QAdd(QSum(f, n - 1), f[n])

---------------------------------------------------------------------------
(* Dense matrices: nr x nc, m[i][j] *)

NRows(x) == Len(x)
NCols(x) == Len(x[1])

Transpose(x) == [j \in 1..NCols(x) |-> [i \in 1..NRows(x) |-> x[i][j]]]

MatMul(x, y) ==
    [i \in 1..NRows(x) |-> [j \in 1..NCols(y) |->
        QSum([k \in 1..NCols(x) |-> QMul(x[i][k], y[k][j])], NCols(x))]]
MatScale(x, s) == [i \in 1..NRows(x) |-> [j \in 1..NCols(x) |-> QMul(x[i][j], s)]]
MatDivScalar(x, s) == [i \in 1..NRows(x) |-> [j \in 1..NCols(x) |-> QDiv(x[i][j], s)]]
MatSub(x, y) == [i \in 1..NRows(x) |-> [j \in 1..NCols(x) |-> QSub(x[i][j], y[i][j])]]

\* DMatrix::from_diagonal
FromDiagonal(v) ==
    [i \in 1..Len(v) |-> [j \in 1..Len(v) |-> IF i = j THEN v[i] ELSE Zero]]
\* DVector::from_element
FromElement(n, e) == [i \in 1..n |-> e]

\* the matrix without row i and column j
Minor(x, i, j) ==
    [p \in 1..(NRows(x) - 1) |-> [q \in 1..(NCols(x) - 1) |->
        x[IF p < i THEN p ELSE p + 1][IF q < j THEN q ELSE q + 1]]]

RECURSIVE Determinant(_)
\* determinant of a square matrix (cofactor expansion along the first row)
Determinant(x) ==
    IF NRows(x) = 1 THEN x[1][1]
    ELSE QSum([j \in 1..NCols(x) |->
                 QMul(IF j % 2 = 1 THEN x[1][j] ELSE QNeg(x[1][j]),
                      Determinant(Minor(x, 1, j)))], NCols(x))

\* as_slice of a nalgebra matrix: its elements in column-major order
AsSlice(x) ==
    [k \in 1..(NRows(x) * NCols(x)) |->
        x[((k - 1) % NRows(x)) + 1][((k - 1) \div NRows(x)) + 1]]

---------------------------------------------------------------------------
(* The Array2 adapter, lines 12-57 *)

\* panic!("The lengths do not match!")
Panic == [panic |-> "The lengths do not match!"]
IsPanic(x) == "panic" \in DOMAIN x

\* struct Array2<R, C>(NestedArray<R, C>)
Array2(nested) == [nested |-> nested]

\* lines 26-31: a zeroed R x C nested array whose flattened (row-major)
\* elements are overwritten by the elements of the slice, as far as zip goes
ZipFill(slice, r, c) ==
    [i \in 1..r |-> [j \in 1..c |->
        IF (i - 1) * c + j <= Len(slice) THEN slice[(i - 1) * c + j] ELSE Zero]]

\* the variant without the length check
FromSliceUnchecked(slice, r, c) == Array2(ZipFill(slice, r, c))

\* impl From<&[f64]> for Array2<R, C>
FromSlice(slice, r, c) ==
    IF Len(slice) # r * c THEN Panic ELSE Array2(ZipFill(slice, r, c))

\* impl From<&[f64; RC]> for Array2<R, C>
FromArray(array, rc, r, c) ==
    IF rc # r * c THEN Panic ELSE FromSlice(array, r, c)

\* as_flattened of the nested array: row after row
AsFlattened(nested) ==
    [k \in 1..(Len(nested) * Len(nested[1])) |->
        nested[((k - 1) \div Len(nested[1])) + 1][((k - 1) % Len(nested[1])) + 1]]

\* SMatrix::from_row_slice
FromRowSlice(flat, r, c) == [i \in 1..r |-> [j \in 1..c |-> flat[(i - 1) * c + j]]]

\* impl Into<SMatrix<f64, R, C>> for Array2<R, C>
IntoSMatrix(arr) ==
    FromRowSlice(AsFlattened(arr.nested), Len(arr.nested), Len(arr.nested[1]))

---------------------------------------------------------------------------
(* Statistics of nalgebra used by estimate *)

Column(x, j) == [i \in 1..NRows(x) |-> x[i][j]]

\* mean of a column
Mean(col) == QDiv(QSum(col, Len(col)), I2Q(Len(col)))

\* population variance of a column (divisor: the number of elements)
Variance(col) ==
    LET mu == Mean(col)
    IN QDiv(QSum([i \in 1..Len(col) |->
                    QMul(QSub(col[i], mu), QSub(col[i], mu))], Len(col)),
            I2Q(Len(col)))

\* the variant that sums the rows without dividing by their number
RowSumOnly(x) == <<[j \in 1..NCols(x) |-> QSum(Column(x, j), NRows(x))]>>

\* row_mean: the 1 x C row vector of the column means
RowMean(x) == <<[j \in 1..NCols(x) |-> Mean(Column(x, j))]>>

\* row_variance: the 1 x C row vector of the column variances
RowVariance(x) == <<[j \in 1..NCols(x) |-> Variance(Column(x, j))]>>

\* sum of the elements of a row vector
VecSum(rowvec) == QSum(rowvec[1], Len(rowvec[1]))

\* dot product of two vectors
Dot(x, y) == QSum([i \in 1..Len(x) |-> QMul(x[i], y[i])], Len(x))

\* lines 106-115: subtract the mean row from every row
Demean(x, mean) ==
    [i \in 1..NRows(x) |-> [j \in 1..NCols(x) |-> QSub(x[i][j], mean[1][j])]]

\* line 119
Covariance(dst_demean, src_demean, num) ==
    MatDivScalar(MatMul(Transpose(dst_demean), src_demean), num)

---------------------------------------------------------------------------
(* Unit vectors and orthonormal frames.  A direction is a primitive        *)
(* integer vector w; it stands for the unit vector w / |w|.  A frame is a  *)
(* sequence of mutually orthogonal directions.  The factor u of an SVD is  *)
(* a frame read as the columns of U, the factor vt a frame read as the     *)
(* rows of Vt, and the two frames of one SVD have the same squared norms   *)
(* position by position, so that every product the code forms from them    *)
(* is rational.                                                            *)
(***************************************************************************)

RECURSIVE IDot(_, _, _)
\* integer dot product of the first n components
IDot(x, y, n) == IF n = 0 THEN 0 ELSE IDot(x, y, n - 1) + x[n] * y[n]
Norm2(x) == IDot(x, x, Len(x))

Coords == {e \in -MaxNorm2..MaxNorm2 : e * e <= MaxNorm2}

RECURSIVE IntVectors(_)
IntVectors(n) ==
    IF n = 0 THEN {<<>>}
    ELSE {Append(v, e) : v \in IntVectors(n - 1), e \in Coords}

RECURSIVE GCDAll(_, _)
GCDAll(x, n) == IF n = 0 THEN 0 ELSE GCD(GCDAll(x, n - 1), Abs(x[n]))

DirsOf(n) == {x \in IntVectors(n) : Norm2(x) <= MaxNorm2 /\ GCDAll(x, n) = 1}

RECURSIVE LeadingPositive(_, _)
\* the first non-zero component among x[k] .. is positive
LeadingPositive(x, k) ==
    IF x[k] = 0 THEN LeadingPositive(x, k + 1) ELSE x[k] > 0

\* one direction of every pair w, -w.  Replacing the singular vectors
\* u_j, v_j of an SVD by -u_j, -v_j gives an SVD with the same products
\* U * diag(d) * Vt and det(U) * det(Vt), which is all estimate reads of
\* them; the right singular vectors are taken from RightDirs, the left
\* ones from all of Dirs
RightDirs ==
    <<{x \in DirsOf(1) : LeadingPositive(x, 1)},
      {x \in DirsOf(2) : LeadingPositive(x, 1)},
      {x \in DirsOf(3) : LeadingPositive(x, 1)}>>

RECURSIVE ByNorm(_, _)
\* the sequence whose k-th element holds the directions of squared norm k
ByNorm(dirs, k) ==
    IF k = 0 THEN <<>>
    ELSE Append(ByNorm(dirs, k - 1), {x \in dirs : Norm2(x) = k})

DirsByNorm ==
    <<ByNorm(DirsOf(1), MaxNorm2), ByNorm(DirsOf(2), MaxNorm2), ByNorm(DirsOf(3), MaxNorm2)>>

\* the squared norms of the vectors of a frame
Pattern(f) == [j \in 1..Len(f) |-> Norm2(f[j])]

\* x is orthogonal to every vector of the frame f
OrthogonalTo(f, x) == \A i \in 1..Len(f) : IDot(f[i], x, Len(x)) = 0

\* determinant of the integer matrix whose columns (or rows) are the vectors
FrameDet(f) == Determinant([i \in 1..Len(f) |-> [j \in 1..Len(f) |-> I2Q(f[i][j])]])

RECURSIVE IProd(_, _)
IProd(p, n) == IF n = 0 THEN 1 ELSE IProd(p, n - 1) * p[n]

\* u.determinant() * v.determinant() for frames u, v of one pattern:
\* det(U) = FrameDet(u) / sqrt(n_1 ... n_C), det(Vt) likewise
DetProduct(u, v) ==
    QDiv(QMul(FrameDet(u), FrameDet(v)), I2Q(IProd(Pattern(u), Len(u))))

\* u * diag(dv) * v for frames u (columns), v (rows) of one pattern:
\* entry (i, k) is the sum over j of u_j[i] * dv[j] * v_j[k] / n_j
MulUDV(u, dv, v) ==
    [i \in 1..Len(u) |-> [k \in 1..Len(u) |->
        QSum([j \in 1..Len(u) |->
                QMul(dv[j], Q(u[j][i] * v[j][k], Norm2(u[j])))], Len(u))]]

\* u * v
MulUV(u, v) == MulUDV(u, FromElement(Len(u), One), v)

---------------------------------------------------------------------------
(* The singular value decomposition, nalgebra_lapack::SVD::new.  The       *)
(* search for the factors runs on the integer matrix l * A, l the least    *)
(* common denominator of A: with directions w, z of equal norm,            *)
(* (l * A) z = g w says that z / |z| and w / |w| are a pair of singular    *)
(* vectors of A with the singular value g / l.  A matrix whose elements    *)
(* carry the exponent e is H^e times such a matrix, and its singular       *)
(* values are H^e times the singular values of that matrix.                *)
(***************************************************************************)

\* the least common multiple of two positive integers
Lcm(x, y) == (x \div GCD(x, y)) * y

RECURSIVE DenLcm(_, _)
\* the least common multiple of the denominators of b[1] .. b[n]
DenLcm(b, n) ==
    IF n = 0 THEN 1 ELSE Lcm(DenLcm(b, n - 1), b[n][2])

\* the least common denominator of the elements of a matrix
MatDenLcm(x) == DenLcm(AsSlice(x), NRows(x) * NCols(x))

\* the elements of x are finite and those that are not 0 carry the exponent e
Uniform(x, e) ==
    \A i \in 1..NRows(x) : \A j \in 1..NCols(x) :
        IsFinite(x[i][j]) /\ (x[i][j][1] = 0 \/ x[i][j][3] = e)

\* the exponent of the elements of x: x is H^e times a matrix of rationals
MatExp(x) == CHOOSE e \in Exponents : Uniform(x, e)

\* the integer matrix l * x / H^e
IntMat(x, l) ==
    [i \in 1..NRows(x) |-> [j \in 1..NCols(x) |-> x[i][j][1] * (l \div x[i][j][2])]]

\* xi * z for an integer matrix and an integer vector
IMatVec(xi, z) == [i \in 1..Len(xi) |-> IDot(xi[i], z, Len(z))]

\* the right singular vectors that may follow the frame v
RightVectors(xi, v) == {y \in RightDirs[Len(xi)] : OrthogonalTo(v, y)}

\* the singular pair <<w, z, g>> of the right vector z with its image b, if
\* there is one with g > 0: b = g w, |w| = |z|, w orthogonal to u
PositivePair(u, z, b, g) ==
    IF g # 0 /\ IDot(b, b, Len(b)) = g * g * Norm2(z)
            /\ OrthogonalTo(u, [i \in 1..Len(b) |-> b[i] \div g])
    THEN {<<[i \in 1..Len(b) |-> b[i] \div g], z, g>>}
    ELSE {}

\* the singular pairs <<w, z, g>> with g > 0 that may follow the frames u, v:
\* xi * z = g w, |w| = |z|, w orthogonal to u
PositivePairs(xi, u, v) ==
    UNION {UNION {UNION {PositivePair(u, z, b, g) : g \in {GCDAll(b, Len(b))}} :
                    b \in {IMatVec(xi, z)}} :
             z \in RightVectors(xi, v)}

\* the singular pairs <<w, z, 0>> that may follow the frames u, v:
\* xi * z = 0, and w is any direction orthogonal to u with |w| = |z|
ZeroPairs(xi, u, v) ==
    UNION {{<<w, z, 0>> : w \in {y \in DirsByNorm[Len(z)][Norm2(z)] : OrthogonalTo(u, y)}} :
           z \in {y \in RightVectors(xi, v) : GCDAll(IMatVec(xi, y), Len(y)) = 0}}

\* the singular pairs that carry the largest singular value left: the
\* singular values of an SVD descend
TopPairs(pairs) == {q \in pairs : \A r \in pairs : r[3] <= q[3]}
NextPairs(xi, u, v) ==
    UNION {IF pairs # {} THEN TopPairs(pairs) ELSE ZeroPairs(xi, u, v) :
             pairs \in {PositivePairs(xi, u, v)}}

\* the frames without vectors
NoFrames == << <<>>, <<>>, <<>> >>

\* the triple p extended by the singular pair q
Extend(p, q) == <<Append(p[1], q[1]), Append(p[2], q[2]), Append(p[3], q[3])>>

RECURSIVE SvdFrames(_, _)
\* the triples <<u, v, g>>: frames u, v of k vectors with xi * v_j = g_j u_j,
\* g_1 >= g_2 >= ... >= g_k >= 0
SvdFrames(xi, k) ==
    IF k = 0 THEN {NoFrames}
    ELSE UNION {{Extend(p, q) : q \in NextPairs(xi, p[1], p[2])} :
                p \in SvdFrames(xi, k - 1)}

\* the factors of p for the common denominator l and the exponent e
Factors(p, l, e) ==
    [u |-> p[1],
     singular_values |-> [j \in 1..Len(p[3]) |-> QE(p[3][j], l, e)],
     vt |-> p[2]]

\* every factorization A = U * diag(S) * Vt the backend may return
Svd(x) ==
    UNION {{Factors(p, l, e) : p \in SvdFrames(IntMat(x, l), NRows(x))} :
             l \in {MatDenLcm(x)}, e \in {MatExp(x)}}

RECURSIVE Completable(_, _, _)
\* the triple p can be extended by k more singular pairs
Completable(xi, p, k) ==
    \/ k = 0
    \/ \E q \in NextPairs(xi, p[1], p[2]) : Completable(xi, Extend(p, q), k - 1)

\* the triple p extended by one of the next pairs after which it can still be
\* extended by k more, as a set of at most one element
ExtendOnce(xi, p, k) ==
    UNION {IF \E r \in pairs : Completable(xi, Extend(p, r), k)
           THEN {Extend(p, CHOOSE r \in pairs : Completable(xi, Extend(p, r), k))}
           ELSE {} :
             pairs \in {NextPairs(xi, p[1], p[2])}}

RECURSIVE SvdChain(_, _)
\* one of the triples of SvdFrames(xi, Len(xi)), cut to its first k singular
\* pairs, as a set of at most one element: empty only if SvdFrames is empty
SvdChain(xi, k) ==
    IF k = 0 THEN {NoFrames}
    ELSE UNION {ExtendOnce(xi, p, Len(xi) - k) : p \in SvdChain(xi, k - 1)}

\* A has an SVD among the frames
HasSvd(x) ==
    /\ \E e \in Exponents : Uniform(x, e)
    /\ \E l \in {MatDenLcm(x)} : Completable(IntMat(x, l), NoFrames, NRows(x))

\* the singular values of A, which every factorization shares
SingularValuesOf(x) ==
    CHOOSE s \in UNION {{Factors(p, l, e).singular_values :
                            p \in SvdChain(IntMat(x, l), NRows(x))} :
                        l \in {MatDenLcm(x)}, e \in {MatExp(x)}} : TRUE

\* the tolerance of a.rank(1e-5f64) is the rational 1 / RankTolInv
RankTolInv == 100000

\* the number of the values of s above eps
CountAbove(s, eps) == Cardinality({j \in 1..Len(s) : QLt(eps, s[j])})

\* Matrix::rank(eps): the number of singular values above eps
Rank(x, eps) == CHOOSE n \in {CountAbove(s, eps) : s \in {SingularValuesOf(x)}} : TRUE

---------------------------------------------------------------------------
(* The steps of estimate, lines 92-164 *)

\* lines 120-124: all ones, the last element -1 when det(A) < 0
ReflectionGuard(x, c) ==
    IF QLt(Determinant(x), Zero)
    THEN [FromElement(c, One) EXCEPT ![c] = MinusOne]
    ELSE FromElement(c, One)

\* line 125: the identity of size n
Identity(n) == FromDiagonal(FromElement(n, One))

\* the variant that takes a rank of 1 for no correspondence too
RankIsZeroOrOne(rk) == rk <= 1

\* line 132
RankIsZero(rk) == rk = 0

\* line 135
IsDeficient(rk, c) == rk = c - 1

\* line 136
IsProper(u, v) == QLt(Zero, DetProduct(u, v))

\* view((r0, c0), (nr, nc)): the nr x nc block whose first element is (r0, c0),
\* both counted from 0
View(x, r0, c0, nr, nc) == [i \in 1..nr |-> [j \in 1..nc |-> x[r0 + i][c0 + j]]]

\* copy_from_slice asserts that the view and the slice hold the same number
\* of elements
SliceFits(nr, nc, slice) == Len(slice) = nr * nc

\* view_mut((r0, c0), (nr, nc)).copy_from_slice(slice): the slice is read in
\* column-major order
CopyFromSlice(x, r0, c0, nr, nc, slice) ==
    [i \in 1..NRows(x) |-> [j \in 1..NCols(x) |->
        IF i > r0 /\ i <= r0 + nr /\ j > c0 /\ j <= c0 + nc
        THEN slice[(j - c0 - 1) * nr + (i - r0)]
        ELSE x[i][j]]]

\* the variant that never restores
RestoreKeep(dv, c, saved) == dv

\* line 143
Restore(dv, c, saved) == [dv EXCEPT ![c] = saved]

\* the variant that divides by the sample variance (divisor R - 1)
ScaleFactorSample(flag, src_demean, s, dv) ==
    IF flag
    THEN QMul(QDiv(One, QMul(VecSum(RowVariance(src_demean)),
                             Q(NRows(src_demean), NRows(src_demean) - 1))),
              Dot(s, dv))
    ELSE One

\* lines 152-156
ScaleFactor(flag, src_demean, s, dv) ==
    IF flag
    THEN QMul(QDiv(One, VecSum(RowVariance(src_demean))), Dot(s, dv))
    ELSE One

\* the variant that forgets the scale
TranslationUnscaled(dmean, x, smean, sc, c) ==
    MatSub(dmean, Transpose(MatMul(View(x, 0, 0, c, c), Transpose(smean))))

\* line 157
Translation(dmean, x, smean, sc, c) ==
    MatSub(dmean,
           MatScale(Transpose(MatMul(View(x, 0, 0, c, c), Transpose(smean))), sc))

\* the variant that scales the translation column too
MulAssignRows(x, c, sc) ==
    [i \in 1..NRows(x) |-> [j \in 1..NCols(x) |->
        IF i <= c THEN QMul(x[i][j], sc) ELSE x[i][j]]]

\* line 159: view_mut((0, 0), (C, C)).mul_assign(scale)
MulAssign(x, c, sc) ==
    [i \in 1..NRows(x) |-> [j \in 1..NCols(x) |->
        IF i <= c /\ j <= c THEN QMul(x[i][j], sc) ELSE x[i][j]]]

---------------------------------------------------------------------------
(* The inputs the model runs *)

\* the integer matrix x divided by den
QMat(x, den) == [i \in 1..Len(x) |-> [j \in 1..Len(x[1]) |-> Q(x[i][j], den)]]

\* the shapes <<R, C>>
Shapes == {<<2, 1>>, <<1, 2>>, <<2, 2>>, <<3, 2>>, <<2, 3>>, <<3, 3>>, <<4, 3>>}

\* the source point sets of each shape
PointSets(shape) ==
    CASE shape = <<2, 1>> -> {QMat(<< <<2>>, <<2>> >>, 1), QMat(<< <<1>>, <<3>> >>, 1)}
      [] shape = <<1, 2>> -> {QMat(<< <<1, 2>> >>, 1)}
      [] shape = <<2, 2>> -> {QMat(<< <<1, 1>>, <<1, 1>> >>, 1),
                              QMat(<< <<0, 0>>, <<2, 0>> >>, 1),
                              QMat(<< <<1, 2>>, <<1, 4>> >>, 1),
                              QMat(<< <<0, 0>>, <<2, 2>> >>, 1),
                              QMat(<< <<0, 0>>, <<1, 0>> >>, 200)}
      [] shape = <<3, 2>> -> {QMat(<< <<0, 0>>, <<2, 0>>, <<1, 3>> >>, 1),
                              QMat(<< <<0, 1>>, <<1, 1>>, <<2, 1>> >>, 1)}
      [] shape = <<2, 3>> -> {QMat(<< <<1, 2, 3>>, <<4, 5, 6>> >>, 1),
                              QMat(<< <<0, 0, 0>>, <<2, 0, 0>> >>, 1),
                              QMat(<< <<1, 2, 3>>, <<1, 2, 3>> >>, 1)}
      [] shape = <<3, 3>> -> {QMat(<< <<0, 0, 0>>, <<2, 0, 0>>, <<1, 3, 0>> >>, 1)}
      [] shape = <<4, 3>> -> {QMat(<< <<1, 0, 0>>, <<-1, 0, 0>>,
                                      <<0, 2, 1>>, <<0, -2, 1>> >>, 1)}

\* the linear maps that generate the destinations: rotations, reflections,
\* a stretch, a projection and the zero map
LinearMaps(c) ==
    CASE c = 1 -> {<< <<1>> >>, << <<-1>> >>, << <<0>> >>}
      [] c = 2 -> {<< <<1, 0>>, <<0, 1>> >>, << <<0, -1>>, <<1, 0>> >>,
                   << <<1, 0>>, <<0, -1>> >>, << <<0, 1>>, <<1, 0>> >>,
                   << <<1, 0>>, <<0, 2>> >>, << <<1, 0>>, <<0, 0>> >>,
                   << <<0, 0>>, <<0, 0>> >>}
      [] c = 3 -> {<< <<1, 0, 0>>, <<0, 1, 0>>, <<0, 0, 1>> >>,
                   << <<0, -1, 0>>, <<1, 0, 0>>, <<0, 0, 1>> >>,
                   << <<0, 0, 1>>, <<1, 0, 0>>, <<0, 1, 0>> >>,
                   << <<1, 0, 0>>, <<0, 1, 0>>, <<0, 0, -1>> >>}

\* the proper rotations among them: orthogonal, determinant +1
Rotations(c) ==
    {l \in LinearMaps(c) :
        /\ MatMul(QMat(l, 1), Transpose(QMat(l, 1))) = Identity(c)
        /\ Determinant(QMat(l, 1)) = One}

\* the shift k * (1, 2, .., c) as a 1 x c row vector
Shift(k, c) == <<[j \in 1..c |-> I2Q(k * j)]>>

\* s * l * p + shift for every point p (row) of x
Similarity(s, l, shift, x) ==
    [i \in 1..NRows(x) |-> [j \in 1..NCols(x) |->
        QAdd(QMul(I2Q(s), MatMul(QMat(l, 1), Transpose(<<x[i]>>))[j][1]),
             shift[1][j])]]

\* the cross-covariance matrix estimate computes for src and dst
CrossCovariance(x, y) ==
    Covariance(Demean(y, RowMean(y)), Demean(x, RowMean(x)), I2Q(NRows(x)))

\* the calls with dst the image of src under a linear map, a scale and a shift
CallsOf(sh, x) ==
    {[R |-> sh[1], C |-> sh[2], src_in |-> AsFlattened(x),
      dst_in |-> AsFlattened(Similarity(s, l, Shift(k, sh[2]), x)),
      estimate_scale |-> b] :
        b \in BOOLEAN, s \in 1..MaxScale, k \in 0..MaxShift, l \in LinearMaps(sh[2])}

\* the magnitudes H^es of src and H^ed of dst of the calls on very small and
\* very large coordinates
Magnitudes == {<<-1, 1>>, <<-1, 0>>, <<-1, -1>>, <<1, -1>>, <<0, 1>>}

\* the point sets whose coordinates are also taken very small and very large
ExtremeSets(shape) ==
    CASE shape = <<2, 1>> -> {QMat(<< <<1>>, <<3>> >>, 1)}
      [] shape = <<2, 2>> -> {QMat(<< <<0, 0>>, <<1, 0>> >>, 1),
                              QMat(<< <<1, 2>>, <<1, 4>> >>, 1)}
      [] OTHER -> {}

\* the calls with src = H^es * x and dst = H^ed * x
ExtremeCallsOf(sh) ==
    {[R |-> sh[1], C |-> sh[2], src_in |-> AsFlattened(MatScale(x, Pow(ex[1]))),
      dst_in |-> AsFlattened(MatScale(x, Pow(ex[2]))),
      estimate_scale |-> b] :
        b \in BOOLEAN, ex \in Magnitudes, x \in ExtremeSets(sh)}

\* the slice cut or zero-padded to n elements
Resize(flat, n) == [k \in 1..n |-> IF k <= Len(flat) THEN flat[k] ELSE Zero]

WrongLengths(rc) == (0..(rc + MaxExtra)) \ {rc}

\* the calls whose src slice, or dst array, has a wrong length
BadCallsOf(sh, x) ==
    {[R |-> sh[1], C |-> sh[2], src_in |-> Resize(AsFlattened(x), n),
      dst_in |-> AsFlattened(x), estimate_scale |-> TRUE] :
        n \in WrongLengths(sh[1] * sh[2])}
    \cup
    {[R |-> sh[1], C |-> sh[2], src_in |-> AsFlattened(x),
      dst_in |-> Resize(AsFlattened(x), n), estimate_scale |-> TRUE] :
        n \in WrongLengths(sh[1] * sh[2])}

\* the calls whose cross-covariance matrix has an SVD among the frames
Representable(in) ==
    HasSvd(CrossCovariance(FromRowSlice(in.src_in, in.R, in.C),
                           FromRowSlice(in.dst_in, in.R, in.C)))

Inputs ==
    UNION {UNION {{in \in CallsOf(sh, x) : Representable(in)} \cup BadCallsOf(sh, x) :
                    x \in PointSets(sh)}
           \cup {in \in ExtremeCallsOf(sh) : Representable(in)} : sh \in Shapes}

---------------------------------------------------------------------------
(* The state machine *)

\* an adapter result that is not built yet
NoArray == [unset |-> TRUE]
\* the svd of a call that has not reached it, and of one whose SVD failed
NoSvd == [unset |-> TRUE]
SvdFailed == [failed |-> TRUE]

Init ==
    \E in \in Inputs :
        /\ R = in.R
        /\ C = in.C
        /\ src_in = in.src_in
        /\ dst_in = in.dst_in
        /\ estimate_scale = in.estimate_scale
        /\ pc = "from_src"
        /\ src_arr = NoArray
        /\ dst_arr = NoArray
        /\ src = NoValue
        /\ dst = NoValue
        /\ src_mean = NoValue
        /\ dst_mean = NoValue
        /\ a = NoValue
        /\ d = NoValue
        /\ t = NoValue
        /\ svd = NoSvd
        /\ rank = -1
        /\ m = NoValue
        /\ scale = NoValue
        /\ branch = "none"
        /\ cache = NoValue
        /\ mx = NoValue

\* let src = Array2::from(slice), lines 21-34
FromSliceSrc ==
    /\ pc = "from_src"
    /\ src_arr' = FromSlice(src_in, R, C)
    /\ pc' = IF IsPanic(FromSlice(src_in, R, C)) THEN "panic" ELSE "from_dst"
    /\ UNCHANGED <<R, C, src_in, dst_in, estimate_scale, dst_arr, src, dst,
                   src_mean, dst_mean, a, d, t, svd, rank, m, scale, branch,
                   cache, mx>>

\* let dst = Array2::<R, C>::from(&array), lines 36-43
FromArrayDst ==
    /\ pc = "from_dst"
    /\ dst_arr' = FromArray(dst_in, Len(dst_in), R, C)
    /\ pc' = IF IsPanic(FromArray(dst_in, Len(dst_in), R, C)) THEN "panic" ELSE "center"
    /\ UNCHANGED <<R, C, src_in, dst_in, estimate_scale, src_arr, src, dst,
                   src_mean, dst_mean, a, d, t, svd, rank, m, scale, branch,
                   cache, mx>>

\* lines 101-117: into(), the means, the subtraction of the means
Center ==
    /\ pc = "center"
    /\ src_mean' = RowMean(IntoSMatrix(src_arr))
    /\ dst_mean' = RowMean(IntoSMatrix(dst_arr))
    /\ src' = Demean(IntoSMatrix(src_arr), RowMean(IntoSMatrix(src_arr)))
    /\ dst' = Demean(IntoSMatrix(dst_arr), RowMean(IntoSMatrix(dst_arr)))
    /\ pc' = "covariance"
    /\ UNCHANGED <<R, C, src_in, dst_in, estimate_scale, src_arr, dst_arr,
                   a, d, t, svd, rank, m, scale, branch, cache, mx>>

\* lines 119-125: the cross-covariance, the sign vector, the identity t
CrossCovarianceStep ==
    /\ pc = "covariance"
    /\ a' = Covariance(dst, src, I2Q(R))
    /\ d' = ReflectionGuard(Covariance(dst, src, I2Q(R)), C)
    /\ t' = Identity(C + 1)
    /\ pc' = "svd"
    /\ UNCHANGED <<R, C, src_in, dst_in, estimate_scale, src_arr, dst_arr, src, dst,
                   src_mean, dst_mean, svd, rank, m, scale, branch, cache, mx>>

\* line 126, else arm (lines 161-163): SVD::new gave None
SvdFails ==
    /\ pc = "svd"
    /\ svd' = SvdFailed
    /\ pc' = "return_none"
    /\ UNCHANGED <<R, C, src_in, dst_in, estimate_scale, src_arr, dst_arr, src, dst,
                   src_mean, dst_mean, a, d, t, rank, m, scale, branch, cache, mx>>

\* lines 126-134 with rank 0: the SVD succeeded, its factors are dropped
SvdRankZero ==
    /\ pc = "svd"
    /\ RankIsZero(Rank(a, Q(1, RankTolInv)))
    /\ rank' = Rank(a, Q(1, RankTolInv))
    /\ pc' = "return_none"
    /\ UNCHANGED <<R, C, src_in, dst_in, estimate_scale, src_arr, dst_arr, src, dst,
                   src_mean, dst_mean, a, d, t, svd, m, scale, branch, cache, mx>>

\* lines 126-134 with a non-zero rank: the factors are any the backend returns
SvdRank ==
    /\ pc = "svd"
    /\ ~RankIsZero(Rank(a, Q(1, RankTolInv)))
    /\ rank' = Rank(a, Q(1, RankTolInv))
    /\ \E f \in Svd(a) : svd' = f
    /\ pc' = "rotation"
    /\ UNCHANGED <<R, C, src_in, dst_in, estimate_scale, src_arr, dst_arr, src, dst,
                   src_mean, dst_mean, a, d, t, m, scale, branch, cache, mx>>

\* lines 135-137: rank C - 1, det(U) * det(Vt) > 0
RotationProper ==
    /\ pc = "rotation"
    /\ IsDeficient(rank, C)
    /\ IsProper(svd.u, svd.vt)
    /\ m' = MulUV(svd.u, svd.vt)
    /\ branch' = "proper"
    /\ pc' = "copy"
    /\ UNCHANGED <<R, C, src_in, dst_in, estimate_scale, src_arr, dst_arr, src, dst,
                   src_mean, dst_mean, a, d, t, svd, rank, scale, cache, mx>>

\* lines 138-140: rank C - 1, det(U) * det(Vt) <= 0: save and force d[C - 1]
RotationForce ==
    /\ pc = "rotation"
    /\ IsDeficient(rank, C)
    /\ ~IsProper(svd.u, svd.vt)
    /\ cache' = d[C]
    /\ d' = [d EXCEPT ![C] = MinusOne]
    /\ branch' = "corrected"
    /\ pc' = "corrected"
    /\ UNCHANGED <<R, C, src_in, dst_in, estimate_scale, src_arr, dst_arr, src, dst,
                   src_mean, dst_mean, a, t, svd, rank, m, scale, mx>>

\* lines 141-144: m from the forced d, then d[C - 1] is put back
RotationCorrected ==
    /\ pc = "corrected"
    /\ m' = MulUDV(svd.u, d, svd.vt)
    /\ d' = Restore(d, C, cache)
    /\ pc' = "copy"
    /\ UNCHANGED <<R, C, src_in, dst_in, estimate_scale, src_arr, dst_arr, src, dst,
                   src_mean, dst_mean, a, t, svd, rank, scale, branch, cache, mx>>

\* lines 146-149: every other rank
RotationGeneral ==
    /\ pc = "rotation"
    /\ ~IsDeficient(rank, C)
    /\ m' = MulUDV(svd.u, d, svd.vt)
    /\ branch' = "general"
    /\ pc' = "copy"
    /\ UNCHANGED <<R, C, src_in, dst_in, estimate_scale, src_arr, dst_arr, src, dst,
                   src_mean, dst_mean, a, d, t, svd, rank, scale, cache, mx>>

\* lines 150-156: m is copied into the top-left block, the scale is computed
CopyAndScale ==
    /\ pc = "copy"
    /\ IF SliceFits(C, C, AsSlice(m))
       THEN /\ t' = CopyFromSlice(t, 0, 0, C, C, AsSlice(m))
            /\ scale' = ScaleFactor(estimate_scale, src, svd.singular_values, d)
            /\ pc' = "translation"
       ELSE /\ pc' = "panic"
            /\ UNCHANGED <<t, scale>>
    /\ UNCHANGED <<R, C, src_in, dst_in, estimate_scale, src_arr, dst_arr, src, dst,
                   src_mean, dst_mean, a, d, svd, rank, m, branch, cache, mx>>

\* lines 157-158: the translation is computed and written to column C
TranslationStep ==
    /\ pc = "translation"
    /\ mx' = Translation(dst_mean, t, src_mean, scale, C)
    /\ IF SliceFits(C, 1, AsSlice(Translation(dst_mean, t, src_mean, scale, C)))
       THEN /\ t' = CopyFromSlice(t, 0, C, C, 1,
                                  AsSlice(Translation(dst_mean, t, src_mean, scale, C)))
            /\ pc' = "mul_assign"
       ELSE /\ pc' = "panic"
            /\ UNCHANGED t
    /\ UNCHANGED <<R, C, src_in, dst_in, estimate_scale, src_arr, dst_arr, src, dst,
                   src_mean, dst_mean, a, d, svd, rank, m, scale, branch, cache>>

\* lines 159-160: the block is multiplied by the scale, Some(t) is returned
MulAssignStep ==
    /\ pc = "mul_assign"
    /\ t' = MulAssign(t, C, scale)
    /\ pc' = "return_some"
    /\ UNCHANGED <<R, C, src_in, dst_in, estimate_scale, src_arr, dst_arr, src, dst,
                   src_mean, dst_mean, a, d, svd, rank, m, scale, branch, cache, mx>>

Next ==
    \/ FromSliceSrc
    \/ FromArrayDst
    \/ Center
    \/ CrossCovarianceStep
    \/ SvdFails
    \/ SvdRankZero
    \/ SvdRank
    \/ RotationProper
    \/ RotationForce
    \/ RotationCorrected
    \/ RotationGeneral
    \/ CopyAndScale
    \/ TranslationStep
    \/ MulAssignStep

Spec == Init /\ [][Next]_vars

---------------------------------------------------------------------------
(* Vocabulary of the properties *)

\* the positions at which the call has ended
Terminal == {"panic", "return_none", "return_some"}

\* the positions past line 134: the SVD succeeded and the rank is not 0
PastSvd == {"rotation", "corrected", "copy", "translation", "mul_assign", "return_some"}

\* the positions at which the scale of lines 152-156 is about to be computed,
\* or has been computed
AtScale == {"copy", "translation", "mul_assign", "return_some"}
PastScale == {"translation", "mul_assign", "return_some"}

\* the positions past line 117 and past line 125
PastCenter == {"covariance", "svd", "return_none"} \cup PastSvd
PastCovariance == {"svd", "return_none"} \cup PastSvd

\* both adapters are given R * C elements
WellFormed == Len(src_in) = R * C /\ Len(dst_in) = R * C

\* 1e-5
Tolerance == Q(1, RankTolInv)

Max(x, y) == IF x >= y THEN x ELSE y

\* every element of x is a finite number
FiniteMatrix(x) == \A i \in 1..NRows(x) : \A j \in 1..NCols(x) : IsFinite(x[i][j])

ZeroMatrix(nr, nc) == [i \in 1..nr |-> [j \in 1..nc |-> Zero]]

\* the row [0, ..., 0, 1] of length n
UnitRow(n) == [j \in 1..n |-> IF j = n THEN One ELSE Zero]

\* every point (row) of the R x C set read from flat is the same point
Collapsed(flat) == \A i \in 1..R : \A j \in 1..C : flat[(i - 1) * C + j] = flat[j]

\* the point p moved by the homogeneous transform x
Apply(x, p) ==
    [i \in 1..C |-> QAdd(QSum([j \in 1..C |-> QMul(x[i][j], p[j])], C), x[i][C + 1])]

\* dst is the image of src under p |-> s * l * p + Shift(k)
IsImage(l, s, k) ==
    dst_in = AsFlattened(Similarity(s, l, Shift(k, C), FromRowSlice(src_in, R, C)))

\* the call returned the transform p |-> s * l * p + Shift(k)
Recovered(l, s, k) ==
    /\ pc = "return_some"
    /\ View(t, 0, 0, C, C) = MatScale(QMat(l, 1), I2Q(s))
    /\ View(t, 0, C, C, 1) = Transpose(Shift(k, C))

\* the call of the doc test: src = dst = [[1, 2, 3], [4, 5, 6]], scale estimated
DocPoints == AsFlattened(QMat(<< <<1, 2, 3>>, <<4, 5, 6>> >>, 1))
DocCall ==
    /\ R = 2
    /\ C = 3
    /\ src_in = DocPoints
    /\ dst_in = DocPoints
    /\ estimate_scale

---------------------------------------------------------------------------
(* C1 *)

\* C1: for well-formed inputs estimate never panics (neither in the adapters
\* nor in copy_from_slice) and the backend has factors to return; it returns
\* None exactly when the SVD failed or the rank of A at tolerance 1e-5
\* is 0, and otherwise runs on to return Some of a (C+1) x (C+1) matrix.
C1_NoneIffSvdFailsOrRankZero ==
    WellFormed =>
        /\ pc # "panic"
        /\ pc = "svd" => HasSvd(a)
        /\ pc = "return_none" => svd = SvdFailed \/ rank = 0
        /\ pc = "return_none" /\ svd # SvdFailed => rank = Rank(a, Tolerance)
        /\ pc \in PastSvd =>
            /\ svd \notin {NoSvd, SvdFailed}
            /\ rank = CountAbove(svd.singular_values, Tolerance)
            /\ rank \in 1..C
        /\ pc = "return_some" => NRows(t) = C + 1 /\ \A i \in 1..(C + 1) : Len(t[i]) = C + 1

\* a call returned None although its point sets are not collapsed: the
\* singular values of A are below the tolerance
C1_Witness ==
    /\ WellFormed
    /\ pc = "return_none"
    /\ svd # SvdFailed
    /\ rank = 0
    /\ a # ZeroMatrix(C, C)

---------------------------------------------------------------------------
(* C2 *)

\* C2: every Some result with C >= 2 has a rotation block M of determinant
\* +1, whatever the rank and whatever the signs of det(A), det(U), det(Vt).
C2_DeterminantPlusOne ==
    pc = "return_some" /\ C >= 2 => Determinant(m) = One

---------------------------------------------------------------------------
(* C3 *)

\* C3 as stated: whenever dst is the image of src under a proper rotation, a
\* positive scale and a translation, estimate(src, dst, true) returns that
\* rotation times that scale, and that translation (the SVD succeeding).
C3_RoundTripAnyPointSet ==
    WellFormed /\ estimate_scale /\ pc \in Terminal /\ svd # SvdFailed =>
        \A l \in Rotations(C) : \A s \in 1..MaxScale : \A k \in 0..MaxShift :
            IsImage(l, s, k) => Recovered(l, s, k)

\* C3: whenever dst is the image of src under a proper rotation, a positive
\* scale and a translation, the SVD succeeds and the rank of A at tolerance
\* 1e-5 is at least max(1, C - 1), estimate(src, dst, true) returns that
\* rotation times that scale, and that translation.
C3_RoundTrip ==
    WellFormed /\ estimate_scale /\ pc \in Terminal /\ svd # SvdFailed
        /\ rank >= Max(1, C - 1) =>
        \A l \in Rotations(C) : \A s \in 1..MaxScale : \A k \in 0..MaxShift :
            IsImage(l, s, k) => Recovered(l, s, k)

\* a rotation other than the identity, a scale of 2 and a non-zero shift were
\* recovered from a rank C - 1 covariance through the forced sign
C3_Witness ==
    /\ WellFormed
    /\ estimate_scale
    /\ pc = "return_some"
    /\ C >= 2
    /\ rank = C - 1
    /\ branch = "corrected"
    /\ \E l \in Rotations(C) :
        /\ QMat(l, 1) # Identity(C)
        /\ IsImage(l, 2, 1)
        /\ Recovered(l, 2, 1)

---------------------------------------------------------------------------
(* C4 *)

\* C4: when the points of src, or of dst, are all the same point, the
\* demeaned set is the zero matrix, A is the zero matrix of rank 0, the call
\* goes on to return None for either flag, and neither the rotation nor the
\* scale is ever computed.
C4_CollapsedGivesNone ==
    WellFormed /\ (Collapsed(src_in) \/ Collapsed(dst_in)) =>
        /\ pc \in PastCenter /\ Collapsed(src_in) => src = ZeroMatrix(R, C)
        /\ pc \in PastCenter /\ Collapsed(dst_in) => dst = ZeroMatrix(R, C)
        /\ pc \in PastCovariance => a = ZeroMatrix(C, C)
        /\ pc = "svd" => Rank(a, Tolerance) = 0
        /\ pc \notin PastSvd
        /\ pc \in Terminal => pc = "return_none"
        /\ m = NoValue
        /\ scale = NoValue

\* None was returned for a source that is not collapsed and a destination
\* that is
C4_Witness ==
    /\ WellFormed
    /\ Collapsed(dst_in)
    /\ ~Collapsed(src_in)
    /\ pc = "return_none"
    /\ svd # SvdFailed
    /\ rank = 0

---------------------------------------------------------------------------
(* C5 *)

---------------------------------------------------------------------------
(* C6 *)

\* flat element i (from 0) of the slice sits at row i / C, column i % C
RowMajor(arr, flat) ==
    \A i \in 0..(R * C - 1) : arr.nested[(i \div C) + 1][(i % C) + 1] = flat[i + 1]

\* C6: Array2::from, on a slice and on an array, panics with the length
\* mismatch for every length other than R * C (0 included), producing no
\* Array2, and for the length R * C it stores flat element i at row i / C,
\* column i % C.
C6_AdapterLengthCheck ==
    /\ src_arr # NoArray =>
        IF Len(src_in) # R * C
        THEN src_arr = Panic /\ pc = "panic"
        ELSE ~IsPanic(src_arr) /\ RowMajor(src_arr, src_in)
    /\ dst_arr # NoArray =>
        IF Len(dst_in) # R * C
        THEN dst_arr = Panic /\ pc = "panic"
        ELSE ~IsPanic(dst_arr) /\ RowMajor(dst_arr, dst_in)
    /\ pc = "panic" => ~WellFormed

\* the adapter refused the empty slice
C6_Witness ==
    /\ R * C > 0
    /\ Len(src_in) = 0
    /\ src_arr = Panic
    /\ pc = "panic"

---------------------------------------------------------------------------
(* C7 *)

\* C7: every Some result is (C+1) x (C+1) with the bottom row [0, ..., 0, 1],
\* the block scale * M and the column C equal to
\* dst_mean - scale * (M * src_mean); the bottom row is [0, ..., 0, 1] from
\* the moment t is built.
C7_OutputLayout ==
    /\ pc \in PastCovariance => NRows(t) = C + 1 /\ t[C + 1] = UnitRow(C + 1)
    /\ pc = "return_some" =>
        /\ View(t, 0, 0, C, C) = MatScale(m, scale)
        /\ View(t, 0, C, C, 1) =
            Transpose(MatSub(dst_mean,
                MatScale(Transpose(MatMul(m, Transpose(src_mean))), scale)))

\* a result with a scale other than 1 and a translation other than 0
C7_Witness ==
    /\ pc = "return_some"
    /\ scale = I2Q(2)
    /\ mx # ZeroMatrix(1, C)

---------------------------------------------------------------------------
(* C8 *)

\* C8: the final branch, M = U * diag(d) * Vt with d as set in step 3, is
\* taken only when rank == C.
C8_GeneralBranchOnlyFullRank ==
    branch = "general" => rank = C

---------------------------------------------------------------------------
(* C9 *)

\* C9: wherever the scale is about to be, or has been, computed, d is the
\* vector of step 3; in the forced branch d[C-1] is -1 while M is computed,
\* the step-3 value is kept aside, and the scale is dot(S, d of step 3) over
\* the variance sum.
C9_SignVectorRestored ==
    /\ pc \in AtScale => d = ReflectionGuard(a, C)
    /\ pc = "corrected" =>
        /\ rank = C - 1
        /\ ~IsProper(svd.u, svd.vt)
        /\ d = [ReflectionGuard(a, C) EXCEPT ![C] = MinusOne]
        /\ cache = ReflectionGuard(a, C)[C]
    /\ pc \in AtScale /\ branch = "corrected" =>
        m = MulUDV(svd.u, [ReflectionGuard(a, C) EXCEPT ![C] = MinusOne], svd.vt)
    /\ pc \in PastScale /\ estimate_scale =>
        scale = QDiv(Dot(svd.singular_values, ReflectionGuard(a, C)),
                     VecSum(RowVariance(src)))

\* the scale was computed after the forced branch had put back a d[C-1] of 1
C9_Witness ==
    /\ pc \in PastScale
    /\ estimate_scale
    /\ branch = "corrected"
    /\ cache = One
    /\ d[C] = One

---------------------------------------------------------------------------
(* C10 *)

\* C10: with estimate_scale = true the variance sum of the demeaned source is
\* not 0 wherever the scale is about to be, or has been, computed, and the
\* scale is a finite number; a source of variance 0 makes A the zero matrix,
\* and the call never gets past the rank test.
C10_NoDivisionByZero ==
    /\ pc \in AtScale /\ estimate_scale => VecSum(RowVariance(src)) # Zero
    /\ pc \in PastScale /\ estimate_scale => IsFinite(scale)
    /\ pc \in PastCovariance /\ VecSum(RowVariance(src)) = Zero =>
        /\ a = ZeroMatrix(C, C)
        /\ pc \in {"svd", "return_none"}
        /\ pc = "return_none" => svd = SvdFailed \/ rank = 0

\* the division by zero: the squares of the deviations of a source that is
\* not collapsed underflow to 0 while A, the product of these deviations
\* with the large deviations of dst, has a non-zero rank; line 153 divides
\* by 0 and Some is returned with an infinite scale
C10_DivisionByZero ==
    /\ WellFormed
    /\ ~Collapsed(src_in)
    /\ estimate_scale
    /\ pc = "return_some"
    /\ rank # 0
    /\ VecSum(RowVariance(src)) = Zero
    /\ scale = Infinity
    /\ \E i \in 1..C : \E j \in 1..C : ~IsFinite(t[i][j])

=============================================================================
